---- MODULE Spec2Model ----
(***************************************************************************)
(* Model of the project-manager portal of thrylos-solutions-hub:           *)
(*   - the pm-verify-otp edge function (supabase/functions/pm-verify-otp), *)
(*     one process per in-flight HTTP request, one step per await;         *)
(*   - the otp_verifications and project_managers tables it works on;      *)
(*   - the PM dashboard page (PMDashboard) and the session gate it shares  *)
(*     with the login page (PMLogin), one browser tab per page instance,   *)
(*     and the service_requests table the dashboard reads and writes.      *)
(***************************************************************************)
EXTENDS Integers, Sequences, FiniteSets, TLC

\* ------------------------------------------------------------------ bounds
MaxOtps == 2        \* rows the otp_verifications table may grow to
MaxTime == 2        \* last tick of the clock
NumReqs == 2        \* verification requests in flight at once
MaxNotes == 2       \* note updates that may succeed
MaxAdded == 3       \* requests the admin's list may gain after its load
MaxPMs   == 2       \* rows the admin's PM list may grow to
MaxCalls == 3       \* fetches the login page may start

\* ------------------------------------------------------------- value sets
Emails == {"a@x", "b@x"}               \* "a@x" has a PM row, "b@x" has none
Codes  == {"111111", "222222"}
Tokens == {"uuid-1", "uuid-2"}         \* results of crypto.randomUUID()
Reqs   == 1..NumReqs

\* lifetime of an issued code, in clock ticks (set by the issuance function)
OtpTtl == 2

VARIABLES
  now,                \* the wall clock, new Date()
  otp_verifications,  \* table: sequence of rows, a row's id is its index
  project_managers,   \* table: set of rows
  reqs,               \* per request slot: the handler's locals and position
  service_requests,   \* table: id -> row
  tabs,               \* per browser tab: sessionStorage, route, page state
  orphanWrites,       \* updates in flight whose page has been left
  noteSaves,          \* history: number of note updates that were stored
  requests,           \* AnalyticsCharts prop: the admin's request list
  projectManagers,    \* AnalyticsCharts prop: the admin's PM list
  loaded,             \* history: length of the request list when first loaded
  login,              \* PMLogin in one tab: its state, session key and route
  calls,              \* PMLogin's fetches in flight
  issued,             \* history: number of fetches PMLogin has started
  sentTo,             \* history: email of the last send answered ok
  lastAnswer          \* history: the last answer PMLogin's code handled

otpVars  == <<otp_verifications, project_managers, reqs>>
dashVars == <<service_requests, tabs, orphanWrites, noteSaves>>
adminVars == <<requests, projectManagers, loaded>>
loginVars == <<login, calls, issued, sentTo, lastAnswer>>
vars     == <<now, otpVars, dashVars, adminVars, loginVars>>

\* the clock advances
Tick ==
  /\ now < MaxTime
  /\ now' = now + 1
  /\ UNCHANGED <<otpVars, dashVars, adminVars, loginVars>>

\* ------------------------------------------------------------ HTTP bodies
BadRequestMsg == "Email and OTP are required"
InvalidOtpMsg == "Invalid or expired OTP"
NotFoundMsg   == "Project manager not found"
MalformedMsg  == "Unexpected end of JSON input"

\* a response: status, the error text ("" when none), the pm profile and the
\* session token (empty sequences when the body has none)
Response(st, err, pm, tok) ==
  [status |-> st, error |-> err, pm |-> pm, sessionToken |-> tok]

NoResponse == Response(0, "", <<>>, <<>>)

\* the handler's locals before a request arrives
IdleReq ==
  [pc |-> "idle", input |-> "none", email |-> "", otp |-> "",
   otpData |-> <<>>,
   resp |-> NoResponse,
   reads |-> 0, writes |-> 0,
   eligible |-> FALSE, newerAny |-> FALSE, newerSame |-> FALSE,
   pmExists |-> FALSE, afterSuccess |-> FALSE, markOk |-> <<>>]

\* the project_managers rows of the deployment
PMRowA ==
  [id |-> 1, name |-> "Asha", email |-> "a@x", phone |-> "555",
   specialization |-> "web", is_available |-> TRUE, created_at |-> 0]

\* a validation that forgets the otp field
MissingFieldsEmailOnly(email, otp) == email = ""

\* if (!email || !otp): "" stands for a missing or empty field
MissingFields(email, otp) == email = "" \/ otp = ""

\* ------------------------------------------------------- otp_verifications
OtpIds == 1..Len(otp_verifications)

\* the query without its verified filter
OtpFilterAnyVerified(email, otp, t) ==
  {i \in OtpIds :
     /\ otp_verifications[i].email = email
     /\ otp_verifications[i].otp_code = otp
     /\ otp_verifications[i].expires_at > t}

\* the query without its expiry filter
OtpFilterAnyExpiry(email, otp, t) ==
  {i \in OtpIds :
     /\ otp_verifications[i].email = email
     /\ otp_verifications[i].otp_code = otp
     /\ otp_verifications[i].verified = FALSE}

\* .eq("email").eq("otp_code").eq("verified", false).gt("expires_at", now)
OtpFilter(email, otp, t) ==
  {i \in OtpIds :
     /\ otp_verifications[i].email = email
     /\ otp_verifications[i].otp_code = otp
     /\ otp_verifications[i].verified = FALSE
     /\ otp_verifications[i].expires_at > t}

\* the query ordered ascending
OtpOldest(ids) ==
  {i \in ids : \A j \in ids :
      otp_verifications[j].created_at >= otp_verifications[i].created_at}

\* .order("created_at", {ascending: false}).limit(1): the rows that may come
\* first; rows with equal created_at come in either order
OtpNewest(ids) ==
  {i \in ids : \A j \in ids :
      otp_verifications[j].created_at <= otp_verifications[i].created_at}

\* an update keyed on the email of the matched row instead of its id
MarkVerifiedByEmail(id) ==
  [i \in OtpIds |->
     IF otp_verifications[i].email = otp_verifications[id].email
     THEN [otp_verifications[i] EXCEPT !.verified = TRUE]
     ELSE otp_verifications[i]]

\* .update({verified: true}).eq("id", id)
MarkVerified(id) ==
  [i \in OtpIds |->
     IF i = id THEN [otp_verifications[i] EXCEPT !.verified = TRUE]
     ELSE otp_verifications[i]]

\* the PM query with its filter on the wrong column
PMFilterByName(email) == {p \in project_managers : p.name = email}

\* project_managers .select("*").eq("email", email)
PMFilter(email) == {p \in project_managers : p.email = email}

\* the pm object of the 200 body
PMProfile(p) ==
  [id |-> p.id, name |-> p.name, email |-> p.email, phone |-> p.phone,
   specialization |-> p.specialization, is_available |-> p.is_available]

\* --------------------------------------------------- claim-side predicates
\* a row that is a currently valid code for (email, otp) at time t
ValidFor(row, email, otp, t) ==
  /\ row.email = email
  /\ row.otp_code = otp
  /\ ~row.verified
  /\ row.expires_at > t

\* a row that is an unverified, unexpired code of the email at time t
ActiveFor(row, email, t) ==
  /\ row.email = email
  /\ ~row.verified
  /\ row.expires_at > t

\* ------------------------------------------------------------------- Init
InitOtp ==
  /\ otp_verifications = <<>>
  /\ project_managers = {PMRowA}
  /\ reqs = [r \in Reqs |-> IdleReq]

\* ================================================================ dashboard
Tabs      == {"t1", "t2"}              \* browser tabs, each with its own
                                       \* sessionStorage
SrIds     == {1, 2}                    \* service_requests rows
NoteTexts == {"", " ", "a", "b"}       \* what the note textarea may hold
SelectItems == {"pending", "in_progress", "completed"}
Statuses    == SelectItems \cup {"cancelled"}   \* what the column may hold

\* JSON.stringify(data.pm) and JSON.parse(session)
Stringify(v) == <<"json", v>>
Parse(str)   == str[2]

\* String.prototype.trim on the texts of NoteTexts
Trim(txt) == IF txt = " " THEN "" ELSE txt

\* `[${timestamp}] ${noteText}`
NoteEntry(ts, txt) == [ts |-> ts, text |-> txt]

\* existingNotes ? `${existingNotes}\n\n${entry}` : entry
\* (a notes text is the sequence of its entries, "" and null the empty one)
Concat(existingNotes, entry) ==
  IF existingNotes # <<>> THEN existingNotes \o <<entry>> ELSE <<entry>>

\* the rows of the deployment: request 1 is assigned to PM 1, request 2 to
\* another PM
InitialRequests ==
  [i \in SrIds |->
     [id |-> i, assigned_pm_id |-> i, status |-> "pending", notes |-> <<>>,
      created_at |-> i, user_id |-> 10 + i]]

\* .eq('assigned_pm_id', pmId)
AssignedTo(pmId) == {i \in SrIds : service_requests[i].assigned_pm_id = pmId}

\* .order('created_at', {ascending: false}): the rows of ids, newest first
RECURSIVE NewestFirst(_)
NewestFirst(ids) ==
  IF ids = {} THEN <<>>
  ELSE LET top == CHOOSE i \in ids : \A j \in ids :
                    service_requests[j].created_at
                      <= service_requests[i].created_at
       IN <<service_requests[top]>> \o NewestFirst(ids \ {top})

\* projects.find(p => p.id === projectId)?.notes || ''
CachedNotes(projects, projectId) ==
  IF \E k \in 1..Len(projects) : projects[k].id = projectId
  THEN LET k == CHOOSE k \in 1..Len(projects) : projects[k].id = projectId
       IN projects[k].notes
  ELSE <<>>

\* a tab whose page has just been opened: the component starts from its
\* useState defaults and its mount effect has yet to run
FreshPage(tab, page) ==
  [session |-> tab.session, route |-> page, effectPending |-> TRUE,
   pm |-> <<>>, projects |-> <<>>, loading |-> TRUE,
   noteText |-> "", savingNote |-> FALSE,
   noteOp |-> <<>>, statusOp |-> <<>>, fetching |-> 0, profiling |-> 0,
   statusDone |-> <<>>, rival |-> <<>>]

\* an update awaiting its answer: the row it addresses and the column value
\* it carries (the other column is left at its default)
NoteUpdate(projectId, notes) ==
  [projectId |-> projectId, notes |-> notes, status |-> ""]

StatusUpdate(projectId, newStatus) ==
  [projectId |-> projectId, notes |-> <<>>, status |-> newStatus]

\* the updates a page has in flight
InFlight(tab) ==
  {[kind |-> "note", op |-> tab.noteOp[k]] : k \in 1..Len(tab.noteOp)}
    \cup {[kind |-> "status", op |-> tab.statusOp[k]] :
             k \in 1..Len(tab.statusOp)}

\* the note updates in flight, of pages on screen and of pages left
NotesInFlight ==
  Cardinality({t \in Tabs : tabs[t].noteOp # <<>>})
    + Cardinality({w \in orphanWrites : w.kind = "note"})

\* leaving a page: its updates stay in flight, nothing will continue them
\* (two equal updates in flight without a page count once)
Leave(tab) ==
  /\ InFlight(tab) \cap orphanWrites = {}
  /\ orphanWrites' = orphanWrites \cup InFlight(tab)

\* the project list is on screen: pm is set and the spinner is gone
ListShown(tab) ==
  /\ tab.route = "dashboard"
  /\ ~tab.effectPending
  /\ tab.pm # <<>>
  /\ ~tab.loading
  /\ tab.projects # <<>>

InitDash ==
  /\ service_requests = InitialRequests
  /\ tabs = [t \in Tabs |->
       FreshPage([session |-> <<>>], "login")]
  /\ orphanWrites = {}
  /\ noteSaves = 0

\* the user opens a page of the portal by its address, or reloads it
OpenPage(t, page) ==
  /\ tabs[t] # FreshPage(tabs[t], page)
  /\ tabs' = [tabs EXCEPT ![t] = FreshPage(tabs[t], page)]
  /\ Leave(tabs[t])
  /\ UNCHANGED <<now, adminVars, loginVars, otpVars, service_requests, noteSaves>>

\* PMLogin's mount effect: a stored session sends the tab to the dashboard
LoginEffect(t) ==
  /\ tabs[t].route = "login"
  /\ tabs[t].effectPending
  /\ tabs' = [tabs EXCEPT ![t] =
       IF tabs[t].session # <<>>
       THEN FreshPage(tabs[t], "dashboard")
       ELSE [tabs[t] EXCEPT !.effectPending = FALSE]]
  /\ UNCHANGED <<now, adminVars, loginVars, otpVars, service_requests, orphanWrites, noteSaves>>

\* PMLogin.verifyOtp after an OK response: the profile is stored and the
\* tab goes to the dashboard
VerifyOk(t) ==
  /\ tabs[t].route = "login"
  /\ ~tabs[t].effectPending
  /\ tabs' = [tabs EXCEPT ![t] =
       FreshPage([tabs[t] EXCEPT
                    !.session = <<Stringify(PMProfile(PMRowA))>>],
                 "dashboard")]
  /\ UNCHANGED <<now, adminVars, loginVars, otpVars, service_requests, orphanWrites, noteSaves>>

\* PMDashboard's mount effect: without a session back to the login page,
\* else setPm and fetchProjects up to its await
DashboardEffect(t) ==
  /\ tabs[t].route = "dashboard"
  /\ tabs[t].effectPending
  /\ tabs' = [tabs EXCEPT ![t] =
       IF tabs[t].session = <<>>
       THEN FreshPage(tabs[t], "login")
       ELSE [tabs[t] EXCEPT !.effectPending = FALSE,
                            !.pm = <<Parse(tabs[t].session[1])>>,
                            !.loading = TRUE,
                            !.fetching = @ + 1]]
  /\ UNCHANGED <<now, adminVars, loginVars, otpVars, service_requests, orphanWrites, noteSaves>>

\* fetchProjects from the answer of the service_requests query to the await
\* of the profiles query, or to its end when there is nothing to look up
FetchProjectsDone(t) ==
  /\ tabs[t].fetching > 0
  /\ \E ok \in BOOLEAN :
       LET data == NewestFirst(AssignedTo(tabs[t].pm[1].id))
       IN tabs' = [tabs EXCEPT ![t] =
            IF ~ok
            THEN [tabs[t] EXCEPT !.fetching = @ - 1, !.loading = FALSE]
            ELSE IF data = <<>>
            THEN [tabs[t] EXCEPT !.fetching = @ - 1, !.projects = data,
                                 !.loading = FALSE]
            ELSE [tabs[t] EXCEPT !.fetching = @ - 1, !.projects = data,
                                 !.profiling = @ + 1]]
  /\ UNCHANGED <<now, adminVars, loginVars, otpVars, service_requests, orphanWrites, noteSaves>>

\* fetchProjects from the answer of the profiles query to its end
FetchProfilesDone(t) ==
  /\ tabs[t].profiling > 0
  /\ tabs' = [tabs EXCEPT ![t] =
       [tabs[t] EXCEPT !.profiling = @ - 1, !.loading = FALSE]]
  /\ UNCHANGED <<now, adminVars, loginVars, otpVars, service_requests, orphanWrites, noteSaves>>

\* onChange of the note textarea
SetNoteText(t, txt) ==
  /\ ListShown(tabs[t])
  /\ tabs[t].noteText # txt
  /\ tabs' = [tabs EXCEPT ![t].noteText = txt]
  /\ UNCHANGED <<now, adminVars, loginVars, otpVars, service_requests, orphanWrites, noteSaves>>

\* history: the notes text another page is writing to the same request at
\* the moment this page starts its own update, if there is one
RivalNotes(t, projectId) ==
  IF \E u \in Tabs \ {t} :
       tabs[u].noteOp # <<>> /\ tabs[u].noteOp[1].projectId = projectId
  THEN LET u == CHOOSE u \in Tabs \ {t} :
                  /\ tabs[u].noteOp # <<>>
                  /\ tabs[u].noteOp[1].projectId = projectId
       IN <<tabs[u].noteOp[1].notes>>
  ELSE <<>>

\* saveNote up to the await of its update
SaveNote(t, projectId) ==
  /\ ListShown(tabs[t])
  /\ \E k \in 1..Len(tabs[t].projects) : tabs[t].projects[k].id = projectId
  /\ ~tabs[t].savingNote
  /\ Trim(tabs[t].noteText) # ""
  /\ noteSaves + NotesInFlight < MaxNotes
  /\ LET existingNotes == CachedNotes(tabs[t].projects, projectId)
         updatedNotes  ==
           Concat(existingNotes, NoteEntry(now, tabs[t].noteText))
     IN tabs' = [tabs EXCEPT ![t] =
          [tabs[t] EXCEPT
             !.savingNote = TRUE,
             !.noteOp = <<NoteUpdate(projectId, updatedNotes)>>,
             !.rival = RivalNotes(t, projectId)]]
  /\ UNCHANGED <<now, adminVars, loginVars, otpVars, service_requests, orphanWrites, noteSaves>>

\* the update without its .eq('id', projectId)
WriteNotesEverywhere(projectId, notes) ==
  [i \in SrIds |-> [service_requests[i] EXCEPT !.notes = notes]]

\* .update({notes: updatedNotes}).eq('id', projectId)
WriteNotes(projectId, notes) ==
  [service_requests EXCEPT ![projectId].notes = notes]

\* saveNote from the answer of its update to its end
SaveNoteDone(t) ==
  /\ tabs[t].noteOp # <<>>
  /\ \E ok \in BOOLEAN :
       LET op == tabs[t].noteOp[1]
       IN IF ok
          THEN /\ service_requests' = WriteNotes(op.projectId, op.notes)
               /\ noteSaves' = noteSaves + 1
               /\ tabs' = [tabs EXCEPT ![t] =
                    [tabs[t] EXCEPT !.noteOp = <<>>, !.noteText = "",
                                    !.loading = TRUE, !.fetching = @ + 1,
                                    !.savingNote = FALSE]]
          ELSE /\ tabs' = [tabs EXCEPT ![t] =
                    [tabs[t] EXCEPT !.noteOp = <<>>, !.savingNote = FALSE]]
               /\ UNCHANGED <<service_requests, noteSaves>>
  /\ UNCHANGED <<now, adminVars, loginVars, otpVars, orphanWrites>>

\* projects.find(p => p.id === projectId).status, as the page shows it
CachedStatus(projects, projectId) ==
  projects[CHOOSE k \in 1..Len(projects) : projects[k].id = projectId].status

\* an updateStatus that refuses to reopen a completed request
UpdateStatusGuarded(t, projectId, newStatus) ==
  /\ ListShown(tabs[t])
  /\ \E k \in 1..Len(tabs[t].projects) : tabs[t].projects[k].id = projectId
  /\ newStatus \in SelectItems
  /\ CachedStatus(tabs[t].projects, projectId) # "completed"
  /\ tabs[t].statusOp = <<>>
  /\ tabs' = [tabs EXCEPT ![t].statusOp =
       <<StatusUpdate(projectId, newStatus)>>, ![t].statusDone = <<>>]
  /\ UNCHANGED <<now, adminVars, loginVars, otpVars, service_requests, orphanWrites, noteSaves>>

\* onValueChange of the status Select of a listed request, with one of the
\* Select's items: updateStatus up to its await.  (The Select is unmounted
\* with its card, so any item can be picked anew; a page has one status
\* update in flight at a time.)
UpdateStatus(t, projectId, newStatus) ==
  /\ ListShown(tabs[t])
  /\ \E k \in 1..Len(tabs[t].projects) : tabs[t].projects[k].id = projectId
  /\ newStatus \in SelectItems
  /\ tabs[t].statusOp = <<>>
  /\ tabs' = [tabs EXCEPT ![t].statusOp =
       <<StatusUpdate(projectId, newStatus)>>, ![t].statusDone = <<>>]
  /\ UNCHANGED <<now, adminVars, loginVars, otpVars, service_requests, orphanWrites, noteSaves>>

\* .update({status: newStatus}).eq('id', projectId)
WriteStatus(projectId, newStatus) ==
  [service_requests EXCEPT ![projectId].status = newStatus]

\* history of an answered status update: whether it was stored, the status
\* it asked for and the stored status just before and just after the answer
StatusOutcome(ok, op, before, after) ==
  [ok |-> ok, asked |-> op.status,
   was |-> before[op.projectId].status, is |-> after[op.projectId].status]

\* an updateStatus that fetches the list again whatever the answer
UpdateStatusDoneRefetching(t) ==
  /\ tabs[t].statusOp # <<>>
  /\ \E ok \in BOOLEAN :
       LET op    == tabs[t].statusOp[1]
           after == IF ok THEN WriteStatus(op.projectId, op.status)
                    ELSE service_requests
       IN /\ service_requests' = after
          /\ tabs' = [tabs EXCEPT ![t] =
               [tabs[t] EXCEPT !.statusOp = <<>>, !.loading = TRUE,
                               !.fetching = @ + 1,
                               !.statusDone = <<StatusOutcome(ok, op,
                                                  service_requests, after)>>]]
  /\ UNCHANGED <<now, adminVars, loginVars, otpVars, orphanWrites, noteSaves>>

\* updateStatus from the answer of its update to its end
UpdateStatusDone(t) ==
  /\ tabs[t].statusOp # <<>>
  /\ \E ok \in BOOLEAN :
       LET op == tabs[t].statusOp[1]
       IN IF ok
          THEN /\ service_requests' = WriteStatus(op.projectId, op.status)
               /\ tabs' = [tabs EXCEPT ![t] =
                    [tabs[t] EXCEPT !.statusOp = <<>>, !.loading = TRUE,
                                    !.fetching = @ + 1,
                                    !.statusDone = <<StatusOutcome(TRUE, op,
                                        service_requests,
                                        WriteStatus(op.projectId, op.status))>>]]
          ELSE /\ tabs' = [tabs EXCEPT ![t] =
                    [tabs[t] EXCEPT !.statusOp = <<>>,
                                    !.statusDone = <<StatusOutcome(FALSE, op,
                                        service_requests, service_requests)>>]]
               /\ UNCHANGED service_requests
  /\ UNCHANGED <<now, adminVars, loginVars, otpVars, orphanWrites, noteSaves>>

\* an update is answered after its page was left: the store has changed or
\* not, and the continuation's setState calls fall on an unmounted page
OrphanDone(w) ==
  /\ w \in orphanWrites
  /\ orphanWrites' = orphanWrites \ {w}
  /\ \E ok \in BOOLEAN :
       IF ok /\ w.kind = "note"
       THEN /\ service_requests' = WriteNotes(w.op.projectId, w.op.notes)
            /\ noteSaves' = noteSaves + 1
       ELSE IF ok
       THEN /\ service_requests' = WriteStatus(w.op.projectId, w.op.status)
            /\ UNCHANGED noteSaves
       ELSE UNCHANGED <<service_requests, noteSaves>>
  /\ UNCHANGED <<now, adminVars, loginVars, otpVars, tabs>>

\* a logout that navigates away and leaves the key in place
LogoutKeepsKey(t) ==
  /\ tabs[t].route = "dashboard"
  /\ ~tabs[t].effectPending
  /\ tabs[t].pm # <<>>
  /\ tabs' = [tabs EXCEPT ![t] = FreshPage(tabs[t], "login")]
  /\ Leave(tabs[t])
  /\ UNCHANGED <<now, adminVars, loginVars, otpVars, service_requests, noteSaves>>

\* logout
Logout(t) ==
  /\ tabs[t].route = "dashboard"
  /\ ~tabs[t].effectPending
  /\ tabs[t].pm # <<>>
  /\ tabs' = [tabs EXCEPT ![t] =
       FreshPage([tabs[t] EXCEPT !.session = <<>>], "login")]
  /\ Leave(tabs[t])
  /\ UNCHANGED <<now, adminVars, loginVars, otpVars, service_requests, noteSaves>>

DashNext ==
  \/ \E t \in Tabs, page \in {"login", "dashboard"} : OpenPage(t, page)
  \/ \E t \in Tabs : LoginEffect(t)
  \/ \E t \in Tabs : VerifyOk(t)
  \/ \E t \in Tabs : DashboardEffect(t)
  \/ \E t \in Tabs : FetchProjectsDone(t)
  \/ \E t \in Tabs : FetchProfilesDone(t)
  \/ \E t \in Tabs, txt \in NoteTexts : SetNoteText(t, txt)
  \/ \E t \in Tabs, p \in SrIds : SaveNote(t, p)
  \/ \E t \in Tabs : SaveNoteDone(t)
  \/ \E w \in orphanWrites : OrphanDone(w)
  \/ \E t \in Tabs : Logout(t)

\* ================================================================ analytics
\* AnalyticsCharts({requests, projectManagers}): four views derived from its
\* two props.  A string the code takes apart (a status) is the sequence of
\* its characters; a Record<string, number> is the sequence of its entries
\* in insertion order, which is the order Object.entries lists them in (no
\* key here is an array index or a name that Object.prototype defines).

TrendLimit   == 6      \* .slice(-6)
PopularLimit == 6      \* .slice(0, 6)

LowerCase == <<"a", "b", "c", "d", "e", "f", "g", "h", "i", "j", "k", "l",
               "m", "n", "o", "p", "q", "r", "s", "t", "u", "v", "w", "x",
               "y", "z">>
UpperCase == <<"A", "B", "C", "D", "E", "F", "G", "H", "I", "J", "K", "L",
               "M", "N", "O", "P", "Q", "R", "S", "T", "U", "V", "W", "X",
               "Y", "Z">>
Digits    == {"0", "1", "2", "3", "4", "5", "6", "7", "8", "9"}

\* \w
IsWordChar(c) ==
  \/ \E k \in 1..26 : c = LowerCase[k] \/ c = UpperCase[k]
  \/ c \in Digits
  \/ c = "_"

\* c.toUpperCase()
ToUpperCase(c) ==
  IF \E k \in 1..26 : c = LowerCase[k]
  THEN UpperCase[CHOOSE k \in 1..26 : c = LowerCase[k]]
  ELSE c

\* .replace(/_/g, ' ')
ReplaceUnderscores(str) ==
  [i \in 1..Len(str) |-> IF str[i] = "_" THEN " " ELSE str[i]]

\* a title-casing that reaches the first word only (/\b\w/ without the g)
TitleCaseFirstOnly(str) ==
  [i \in 1..Len(str) |->
     IF /\ IsWordChar(str[i])
        /\ \A j \in 1..(i - 1) : ~IsWordChar(str[j])
     THEN ToUpperCase(str[i]) ELSE str[i]]

\* .replace(/\b\w/g, c => c.toUpperCase())
TitleCase(str) ==
  [i \in 1..Len(str) |->
     IF /\ IsWordChar(str[i])
        /\ (i = 1 \/ ~IsWordChar(str[i - 1]))
     THEN ToUpperCase(str[i]) ELSE str[i]]

\* the label of a status
Humanize(status) == TitleCase(ReplaceUnderscores(status))

\* the position of a key among the entries of a Record, 0 when it has none
KeyIndex(counts, key) ==
  IF \E k \in 1..Len(counts) : counts[k].key = key
  THEN CHOOSE k \in 1..Len(counts) : counts[k].key = key
  ELSE 0

\* counts[key] = value
SetKey(counts, key, value) ==
  IF KeyIndex(counts, key) = 0
  THEN Append(counts, [key |-> key, value |-> value])
  ELSE [counts EXCEPT ![KeyIndex(counts, key)].value = value]

\* counts[key] || 0
GetOrZero(counts, key) ==
  IF KeyIndex(counts, key) = 0 THEN 0 ELSE counts[KeyIndex(counts, key)].value

\* counts[key] = (counts[key] || 0) + 1
Bump(counts, key) == SetKey(counts, key, GetOrZero(counts, key) + 1)

\* keys.forEach(key => counts[key] = (counts[key] || 0) + 1), from counts
RECURSIVE CountInto(_, _)
CountInto(counts, keys) ==
  IF keys = <<>> THEN counts
  ELSE CountInto(Bump(counts, Head(keys)), Tail(keys))

\* a slice that keeps the first six
LastSixFromFront(entries) ==
  IF Len(entries) > TrendLimit THEN SubSeq(entries, 1, TrendLimit)
  ELSE entries

\* .slice(-6)
LastSix(entries) ==
  IF Len(entries) > TrendLimit
  THEN SubSeq(entries, Len(entries) - TrendLimit + 1, Len(entries))
  ELSE entries

\* .slice(0, 6)
TopSix(entries) ==
  IF Len(entries) > PopularLimit THEN SubSeq(entries, 1, PopularLimit)
  ELSE entries

\* entries without the one at position k
Without(entries, k) ==
  SubSeq(entries, 1, k - 1) \o SubSeq(entries, k + 1, Len(entries))

\* a sort by count, ascending
RECURSIVE SortAscending(_)
SortAscending(entries) ==
  IF entries = <<>> THEN <<>>
  ELSE LET k == CHOOSE k \in 1..Len(entries) :
                  /\ \A j \in 1..Len(entries) :
                       entries[j].value >= entries[k].value
                  /\ \A j \in 1..(k - 1) :
                       entries[j].value # entries[k].value
       IN <<entries[k]>> \o SortAscending(Without(entries, k))

\* .sort((a, b) => b[1] - a[1]): by count, descending; the sort is stable, so
\* entries of equal count keep their order
RECURSIVE SortDescending(_)
SortDescending(entries) ==
  IF entries = <<>> THEN <<>>
  ELSE LET k == CHOOSE k \in 1..Len(entries) :
                  /\ \A j \in 1..Len(entries) :
                       entries[j].value <= entries[k].value
                  /\ \A j \in 1..(k - 1) :
                       entries[j].value # entries[k].value
       IN <<entries[k]>> \o SortDescending(Without(entries, k))

\* date.toLocaleString('default', {month: 'short'})
MonthShort == <<"Jan", "Feb", "Mar", "Apr", "May", "Jun",
                "Jul", "Aug", "Sep", "Oct", "Nov", "Dec">>

\* `${month} ${date.getFullYear()}` of new Date(r.created_at)
MonthKey(created_at) == <<MonthShort[created_at.month], created_at.year>>

\* r.service_type || 'Unspecified': an absent and an empty type are falsy
ServiceKey(r) ==
  IF r.service_type = <<>> \/ r.service_type = <<"">> THEN "Unspecified"
  ELSE r.service_type[1]

\* requestTrends
requestTrends(rs) ==
  LET months  == CountInto(<<>>, [i \in 1..Len(rs) |-> MonthKey(rs[i].created_at)])
      entries == LastSix(months)
  IN [i \in 1..Len(entries) |->
        [month |-> entries[i].key, count |-> entries[i].value]]

\* statusDistribution
statusDistribution(rs) ==
  LET counts == CountInto(<<>>, [i \in 1..Len(rs) |-> Humanize(rs[i].status)])
  IN [i \in 1..Len(counts) |->
        [name |-> counts[i].key, value |-> counts[i].value]]

\* a workload object that starts empty
SeedNobody(pms) == <<>>

\* projectManagers.forEach(pm => { workload[pm.name] = 0; })
RECURSIVE SeedWorkload(_)
SeedWorkload(pms) ==
  IF pms = <<>> THEN <<>>
  ELSE SetKey(SeedWorkload(SubSeq(pms, 1, Len(pms) - 1)),
              pms[Len(pms)].name, 0)

\* projectManagers.find(p => p.id === id): the first match, if any
FindPM(pms, id) ==
  IF \E k \in 1..Len(pms) : pms[k].id = id
  THEN <<pms[CHOOSE k \in 1..Len(pms) :
               /\ pms[k].id = id
               /\ \A j \in 1..(k - 1) : pms[j].id # id]>>
  ELSE <<>>

\* the forEach of pmWorkload, from workload
RECURSIVE AssignInto(_, _, _)
AssignInto(workload, rs, pms) ==
  IF rs = <<>> THEN workload
  ELSE LET r  == Head(rs)
           pm == IF r.assigned_pm_id = <<>> THEN <<>>
                 ELSE FindPM(pms, r.assigned_pm_id[1])
       IN AssignInto(IF pm = <<>> THEN workload
                     ELSE Bump(workload, pm[1].name),
                     Tail(rs), pms)

\* pmWorkload
pmWorkload(rs, pms) ==
  LET workload == AssignInto(SeedWorkload(pms), rs, pms)
  IN [i \in 1..Len(workload) |->
        [name |-> workload[i].key, projects |-> workload[i].value]]

\* popularServices
popularServices(rs) ==
  LET counts  == CountInto(<<>>, [i \in 1..Len(rs) |-> ServiceKey(rs[i])])
      entries == TopSix(SortDescending(counts))
  IN [i \in 1..Len(entries) |->
        [name |-> entries[i].key, value |-> entries[i].value]]

\* ------------------------------------------------------- the props' values
StPending    == <<"p", "e", "n", "d", "i", "n", "g">>
StInProgress == <<"i", "n", "_", "p", "r", "o", "g", "r", "e", "s", "s">>
StCompleted  == <<"c", "o", "m", "p", "l", "e", "t", "e", "d">>
StCancelled  == <<"c", "a", "n", "c", "e", "l", "l", "e", "d">>

\* a row of the admin's request list, with the fields the component reads;
\* an absent service_type and a null assigned_pm_id are the empty sequence
Request(status, service_type, year, month, assigned_pm_id) ==
  [status |-> status, service_type |-> service_type,
   created_at |-> [year |-> year, month |-> month],
   assigned_pm_id |-> assigned_pm_id]

\* a row of the admin's PM list
Manager(id, name, is_available) ==
  [id |-> id, name |-> name, is_available |-> is_available]

\* the project managers there are: two of them carry the same name
Managers ==
  {Manager(1, "Asha", TRUE), Manager(2, "Ravi", FALSE),
   Manager(3, "Asha", TRUE)}

\* a request list as first loaded: six services over six months, not in the
\* order of their dates
SixRequests ==
  <<Request(StPending,    <<"Web">>,    2024, 3,  <<1>>),
    Request(StInProgress, <<"App">>,    2024, 1,  <<2>>),
    Request(StCompleted,  <<"SEO">>,    2023, 12, <<>>),
    Request(StPending,    <<"Cloud">>,  2024, 4,  <<1>>),
    Request(StCancelled,  <<"Design">>, 2024, 2,  <<3>>),
    Request(StCompleted,  <<"AI">>,     2024, 5,  <<2>>)>>

InitialLoads == {<<>>, SixRequests}

\* the requests that may come in afterwards: known and new services and
\* months, no service at all, PMs known, unknown (9) and none
NewRequests ==
  {Request(StPending,    <<"Web">>,    2024, 3, <<1>>),
   Request(StPending,    <<"App">>,    2024, 6, <<>>),
   Request(StInProgress, <<>>,         2024, 6, <<2>>),
   Request(StInProgress, <<"">>,       2023, 3, <<3>>),
   Request(StCompleted,  <<"Video">>,  2024, 7, <<9>>),
   Request(StCompleted,  <<"AI">>,     2024, 5, <<1>>),
   Request(StCancelled,  <<"Video">>,  2024, 1, <<3>>),
   Request(StPending,    <<"Audit">>,  2025, 1, <<2>>)}

\* the admin page is closed: the component is not rendered
AdminClosed ==
  /\ requests = <<>>
  /\ projectManagers = <<>>
  /\ loaded = 0

\* the admin page has loaded its request list; the PM list follows
InitAdmin ==
  /\ requests \in InitialLoads
  /\ projectManagers = <<>>
  /\ loaded = Len(requests)

\* the request list is fetched again and holds one more request
RequestsGain(r) ==
  /\ Len(requests) < loaded + MaxAdded
  /\ requests' = Append(requests, r)
  /\ UNCHANGED <<now, otpVars, dashVars, loginVars, projectManagers, loaded>>

\* the PM list is fetched again and holds one more PM
ManagersGain(pm) ==
  /\ Len(projectManagers) < MaxPMs
  /\ \A k \in 1..Len(projectManagers) : projectManagers[k].id # pm.id
  /\ projectManagers' = Append(projectManagers, pm)
  /\ UNCHANGED <<now, otpVars, dashVars, loginVars, requests, loaded>>

AnalyticsNext ==
  \/ \E r \in NewRequests : RequestsGain(r)
  \/ \E pm \in Managers : ManagersGain(pm)

\* =============================================================== login page
\* PMLogin in one tab: its state, the tab's session key and route, and the
\* fetches it has in flight.  An answer is "ok" (response.ok), "not ok", or
\* "error" (fetch rejects or the body is not JSON).
LoginEmails == {"", "ax", "a@x", "b@x"}   \* what the email field may hold
OtpInputs   == {"", "12", "111111"}       \* what the code field may hold
PmNames     == {"", "Asha"}               \* data.pmName || ''
Outcomes    == {"ok", "not ok", "error"}

\* email.includes('@')
IncludesAt(email) == email \in {"a@x", "b@x"}

\* otp.length
OtpLength(otp) ==
  CASE otp = "" -> 0
    [] otp = "12" -> 2
    [] otp = "111111" -> 6

\* the component as mounted, over the tab's session key
FreshLogin(session) ==
  [step |-> "email", loading |-> FALSE, email |-> "", otp |-> "",
   pmName |-> "", session |-> session, route |-> "login"]

\* a fetch in flight: its body, and whether its component is still mounted
Call(id, kind, email, otp) ==
  [id |-> id, kind |-> kind, email |-> email, otp |-> otp, orphan |-> FALSE]

\* the component is unmounted: what its calls set on it will be lost
Orphaned(cs) == {[c EXCEPT !.orphan = TRUE] : c \in cs}

\* history: the last answer handled
Answer(c, outcome) ==
  [kind |-> c.kind, outcome |-> outcome, orphan |-> c.orphan,
   email |-> c.email]

InitLogin ==
  /\ login = FreshLogin(<<>>)
  /\ calls = {}
  /\ issued = 0
  /\ sentTo = <<>>
  /\ lastAnswer = <<>>

\* onChange of the email input (rendered on the 'email' step, never disabled)
LoginSetEmail(e) ==
  /\ login.route = "login"
  /\ login.step = "email"
  /\ login.email # e
  /\ login' = [login EXCEPT !.email = e]
  /\ UNCHANGED <<now, otpVars, dashVars, adminVars, calls, issued, sentTo,
                 lastAnswer>>

\* onChange of the code input (rendered on the 'otp' step)
LoginSetOtp(o) ==
  /\ login.route = "login"
  /\ login.step = "otp"
  /\ login.otp # o
  /\ login' = [login EXCEPT !.otp = o]
  /\ UNCHANGED <<now, otpVars, dashVars, adminVars, calls, issued, sentTo,
                 lastAnswer>>

\* the Back button (rendered on the 'otp' step, never disabled)
LoginBack ==
  /\ login.route = "login"
  /\ login.step = "otp"
  /\ login' = [login EXCEPT !.step = "email", !.otp = ""]
  /\ UNCHANGED <<now, otpVars, dashVars, adminVars, calls, issued, sentTo,
                 lastAnswer>>

\* sendOtp up to its fetch: by the Send button or Resend (disabled while
\* loading) or by Enter in the email input (never disabled)
SendOtp ==
  /\ login.route = "login"
  /\ login.step = "email" \/ ~login.loading
  /\ login.email # "" /\ IncludesAt(login.email)
  /\ issued < MaxCalls
  /\ login' = [login EXCEPT !.loading = TRUE]
  /\ calls' = calls \cup {Call(issued + 1, "send", login.email, "")}
  /\ issued' = issued + 1
  /\ UNCHANGED <<now, otpVars, dashVars, adminVars, sentTo, lastAnswer>>

\* sendOtp from the answer of its fetch to its end
SendAnswer(c, outcome, name) ==
  /\ c \in calls
  /\ c.kind = "send"
  /\ outcome # "ok" => name = ""
  /\ calls' = calls \ {c}
  /\ sentTo' = IF outcome = "ok" THEN <<c.email>> ELSE sentTo
  /\ lastAnswer' = <<Answer(c, outcome)>>
  /\ login' =
       IF c.orphan THEN login
       ELSE IF outcome = "ok"
       THEN [login EXCEPT !.pmName = name, !.step = "otp", !.loading = FALSE]
       ELSE [login EXCEPT !.loading = FALSE]
  /\ UNCHANGED <<now, otpVars, dashVars, adminVars, issued>>

\* verifyOtp up to its fetch: by the Verify button, disabled while loading
\* and while the code is not six characters long
VerifyOtp ==
  /\ login.route = "login"
  /\ login.step = "otp"
  /\ ~login.loading
  /\ OtpLength(login.otp) = 6
  /\ issued < MaxCalls
  /\ login' = [login EXCEPT !.loading = TRUE]
  /\ calls' = calls \cup {Call(issued + 1, "verify", login.email, login.otp)}
  /\ issued' = issued + 1
  /\ UNCHANGED <<now, otpVars, dashVars, adminVars, sentTo, lastAnswer>>

\* a verifyOtp that stores data.pm before it looks at response.ok
VerifyAnswerStoringFirst(c, outcome) ==
  /\ c \in calls
  /\ c.kind = "verify"
  /\ outcome = "ok" => Cardinality(PMFilter(c.email)) = 1
  /\ lastAnswer' = <<Answer(c, outcome)>>
  /\ IF outcome = "ok"
     THEN \E p \in PMFilter(c.email) :
            /\ login' = [FreshLogin(<<Stringify(PMProfile(p))>>)
                           EXCEPT !.route = "dashboard"]
            /\ calls' = Orphaned(calls \ {c})
     ELSE /\ calls' = calls \ {c}
          /\ login' =
               IF c.orphan
               THEN [login EXCEPT !.session = <<Stringify(<<>>)>>]
               ELSE [login EXCEPT !.session = <<Stringify(<<>>)>>,
                                  !.loading = FALSE]
  /\ UNCHANGED <<now, otpVars, dashVars, adminVars, issued, sentTo>>

\* verifyOtp from the answer of its fetch to its end.  The function answers
\* 200 only with the one PM row of the email.  setItem and navigate act
\* whether or not the component is still mounted; the dashboard replaces it.
VerifyAnswer(c, outcome) ==
  /\ c \in calls
  /\ c.kind = "verify"
  /\ outcome = "ok" => Cardinality(PMFilter(c.email)) = 1
  /\ lastAnswer' = <<Answer(c, outcome)>>
  /\ IF outcome = "ok"
     THEN \E p \in PMFilter(c.email) :
            /\ login' = [FreshLogin(<<Stringify(PMProfile(p))>>)
                           EXCEPT !.route = "dashboard"]
            /\ calls' = Orphaned(calls \ {c})
     ELSE /\ calls' = calls \ {c}
          /\ login' = IF c.orphan THEN login
                      ELSE [login EXCEPT !.loading = FALSE]
  /\ UNCHANGED <<now, otpVars, dashVars, adminVars, issued, sentTo>>

\* the login page is loaded anew: a new component, and its mount effect
\* sends the tab to the dashboard when the session key is set
LoginReload ==
  /\ login.route = "login"
  /\ login # FreshLogin(login.session) \/ calls # Orphaned(calls)
  /\ login' = [FreshLogin(login.session) EXCEPT
                 !.route = IF login.session # <<>> THEN "dashboard"
                           ELSE "login"]
  /\ calls' = Orphaned(calls)
  /\ UNCHANGED <<now, otpVars, dashVars, adminVars, issued, sentTo,
                 lastAnswer>>

\* logout on the dashboard: the key is removed, the login page is shown
LoginLogout ==
  /\ login.route = "dashboard"
  /\ login' = FreshLogin(<<>>)
  /\ UNCHANGED <<now, otpVars, dashVars, adminVars, calls, issued, sentTo,
                 lastAnswer>>

LoginNext ==
  \/ \E e \in LoginEmails : LoginSetEmail(e)
  \/ \E o \in OtpInputs : LoginSetOtp(o)
  \/ LoginBack
  \/ SendOtp
  \/ \E c \in calls, outcome \in Outcomes, name \in PmNames :
       SendAnswer(c, outcome, name)
  \/ VerifyOtp
  \/ \E c \in calls, outcome \in Outcomes : VerifyAnswer(c, outcome)
  \/ LoginReload
  \/ LoginLogout

\* the dashboard with status updates and without notes
StatusNext ==
  \/ \E t \in Tabs, page \in {"login", "dashboard"} : OpenPage(t, page)
  \/ \E t \in Tabs : LoginEffect(t)
  \/ \E t \in Tabs : VerifyOk(t)
  \/ \E t \in Tabs : DashboardEffect(t)
  \/ \E t \in Tabs : FetchProjectsDone(t)
  \/ \E t \in Tabs : FetchProfilesDone(t)
  \/ \E t \in Tabs, p \in SrIds, s \in Statuses : UpdateStatus(t, p, s)
  \/ \E t \in Tabs : UpdateStatusDone(t)
  \/ \E w \in orphanWrites : OrphanDone(w)
  \/ \E t \in Tabs : Logout(t)

\* the rows of the deployment, the request of the PM who logs in being in
\* any status (the admin sets statuses too, cancelled among them)
InitStatus ==
  /\ service_requests \in
       {[InitialRequests EXCEPT ![1].status = st] : st \in Statuses}
  /\ tabs = [t \in Tabs |-> FreshPage([session |-> <<>>], "login")]
  /\ orphanWrites = {}
  /\ noteSaves = 0

Init ==
  /\ now = 0
  /\ InitOtp
  /\ InitDash
  /\ AdminClosed
  /\ InitLogin

StatusInit ==
  /\ now = 0
  /\ InitOtp
  /\ InitStatus
  /\ AdminClosed
  /\ InitLogin

AnalyticsInit ==
  /\ now = 0
  /\ InitOtp
  /\ InitDash
  /\ InitAdmin
  /\ InitLogin

\* ---------------------------------------------------------------- actions
\* pm-send-otp persists a fresh code for an email
IssueOtp(email, code) ==
  /\ Len(otp_verifications) < MaxOtps
  /\ otp_verifications' = Append(otp_verifications,
        [email |-> email, otp_code |-> code, verified |-> FALSE,
         expires_at |-> now + OtpTtl, created_at |-> now])
  /\ UNCHANGED <<now, adminVars, loginVars, project_managers, reqs, dashVars>>

\* OPTIONS preflight: answered before the body is read
Preflight(r) ==
  /\ reqs[r].pc = "idle"
  /\ reqs' = [reqs EXCEPT ![r] =
        [IdleReq EXCEPT !.pc = "done", !.input = "options",
                        !.resp = Response(200, "", <<>>, <<>>)]]
  /\ UNCHANGED <<now, adminVars, loginVars, otp_verifications, project_managers, dashVars>>

\* req.json() throws on a body that is not JSON: the catch block answers 500
Malformed(r) ==
  /\ reqs[r].pc = "idle"
  /\ reqs' = [reqs EXCEPT ![r] =
        [IdleReq EXCEPT !.pc = "done", !.input = "malformed",
                        !.resp = Response(500, MalformedMsg, <<>>, <<>>)]]
  /\ UNCHANGED <<now, adminVars, loginVars, otp_verifications, project_managers, dashVars>>

\* const {email, otp} = await req.json(); missing fields are answered 400
Receive(r, email, otp) ==
  /\ reqs[r].pc = "idle"
  /\ reqs' = [reqs EXCEPT ![r] =
        IF MissingFields(email, otp)
        THEN [IdleReq EXCEPT !.pc = "done", !.input = "json",
                 !.email = email, !.otp = otp,
                 !.resp = Response(400, BadRequestMsg, <<>>, <<>>)]
        ELSE [IdleReq EXCEPT !.pc = "lookup", !.input = "json",
                 !.email = email, !.otp = otp,
                 !.afterSuccess = \E o \in Reqs :
                     /\ reqs[o].pc = "done"
                     /\ reqs[o].resp.status = 200
                     /\ reqs[o].email = email
                     /\ reqs[o].otp = otp]]
  /\ UNCHANGED <<now, adminVars, loginVars, otp_verifications, project_managers, dashVars>>

\* the otp_verifications query and the check of its result
Lookup(r) ==
  /\ reqs[r].pc = "lookup"
  /\ LET q    == reqs[r]
         ids  == OtpFilter(q.email, q.otp, now)
         hist == [q EXCEPT
                    !.reads = @ + 1,
                    !.eligible = \E i \in OtpIds :
                        ValidFor(otp_verifications[i], q.email, q.otp, now)]
     IN IF ids = {}
        THEN reqs' = [reqs EXCEPT ![r] =
               [hist EXCEPT !.pc = "done",
                            !.resp = Response(400, InvalidOtpMsg, <<>>, <<>>)]]
        ELSE \E id \in OtpNewest(ids) :
               reqs' = [reqs EXCEPT ![r] =
                 [hist EXCEPT
                    !.pc = "mark",
                    !.otpData = <<[id |-> id, row |-> otp_verifications[id]]>>,
                    !.newerAny = \E j \in OtpIds :
                        /\ ActiveFor(otp_verifications[j], q.email, now)
                        /\ otp_verifications[j].created_at
                             > otp_verifications[id].created_at,
                    !.newerSame = \E j \in OtpIds :
                        /\ ValidFor(otp_verifications[j], q.email, q.otp, now)
                        /\ otp_verifications[j].created_at
                             > otp_verifications[id].created_at]]
  /\ UNCHANGED <<now, adminVars, loginVars, otp_verifications, project_managers, dashVars>>

\* a client that throws on a failed write: the catch block answers 500
MarkThrowing(r) ==
  /\ reqs[r].pc = "mark"
  /\ \E ok \in BOOLEAN :
       /\ otp_verifications' =
            IF ok THEN MarkVerified(reqs[r].otpData[1].id)
            ELSE otp_verifications
       /\ reqs' = [reqs EXCEPT ![r] =
            IF ok
            THEN [reqs[r] EXCEPT !.pc = "pm", !.writes = @ + 1,
                                 !.markOk = <<ok>>]
            ELSE [reqs[r] EXCEPT !.pc = "done", !.writes = @ + 1,
                                 !.markOk = <<ok>>,
                                 !.resp = Response(500, "update failed",
                                                   <<>>, <<>>)]]
  /\ UNCHANGED <<now, adminVars, loginVars, project_managers, dashVars>>

\* await supabase...update({verified: true}).eq("id", otpData.id): the
\* client reports a failed write in its result, which the handler drops
\* (markOk keeps it as history)
Mark(r) ==
  /\ reqs[r].pc = "mark"
  /\ \E ok \in BOOLEAN :
       /\ otp_verifications' =
            IF ok THEN MarkVerified(reqs[r].otpData[1].id)
            ELSE otp_verifications
       /\ reqs' = [reqs EXCEPT ![r].pc = "pm", ![r].writes = @ + 1,
                               ![r].markOk = <<ok>>]
  /\ UNCHANGED <<now, adminVars, loginVars, project_managers, dashVars>>

\* the project_managers query (.single()), the token and the response
FetchPM(r) ==
  /\ reqs[r].pc = "pm"
  /\ LET q    == reqs[r]
         rows == PMFilter(q.email)
         hist == [q EXCEPT !.reads = @ + 1, !.pc = "done",
                    !.pmExists = \E p \in project_managers : p.email = q.email]
     IN IF Cardinality(rows) # 1
        THEN reqs' = [reqs EXCEPT ![r] =
               [hist EXCEPT !.resp = Response(404, NotFoundMsg, <<>>, <<>>)]]
        ELSE \E p \in rows, tok \in Tokens :
               reqs' = [reqs EXCEPT ![r] =
                 [hist EXCEPT
                    !.resp = Response(200, "", <<PMProfile(p)>>, <<tok>>)]]
  /\ UNCHANGED <<now, adminVars, loginVars, otp_verifications, project_managers, dashVars>>

\* the response has been delivered; the slot serves the next request
Finish(r) ==
  /\ reqs[r].pc = "done"
  /\ reqs' = [reqs EXCEPT ![r] = IdleReq]
  /\ UNCHANGED <<now, adminVars, loginVars, otp_verifications, project_managers, dashVars>>

Next ==
  \/ Tick
  \/ \E e \in Emails, c \in Codes : IssueOtp(e, c)
  \/ \E r \in Reqs : Preflight(r)
  \/ \E r \in Reqs : Malformed(r)
  \/ \E r \in Reqs, e \in Emails \cup {""}, c \in Codes \cup {""} :
       Receive(r, e, c)
  \/ \E r \in Reqs : Lookup(r)
  \/ \E r \in Reqs : Mark(r)
  \/ \E r \in Reqs : FetchPM(r)
  \/ \E r \in Reqs : Finish(r)

Spec == Init /\ [][Next]_vars

TypeOK ==
  /\ now \in 0..MaxTime
  /\ Len(otp_verifications) <= MaxOtps
  /\ \A r \in Reqs : reqs[r].pc \in {"idle", "lookup", "mark", "pm", "done"}

DashSpec == Init /\ [][DashNext]_vars

AnalyticsSpec == AnalyticsInit /\ [][AnalyticsNext]_vars

StatusSpec == StatusInit /\ [][StatusNext]_vars

LoginSpec == Init /\ [][LoginNext]_vars

\* ======================================================= verification claims
PMRowFor(email) == \E p \in project_managers : p.email = email

IsJson(q) == q.input = "json"

Answered(q, st, err) == q.resp = Response(st, err, <<>>, <<>>)

LoggedIn(q) == q.pc = "done" /\ q.resp.status = 200 /\ q.resp.pm # <<>>

\* C1: a request is answered 200 with a PM profile and a session token only
\* if the table held, at its lookup, a row for the submitted email with the
\* submitted code, verified = false and expires_at later than now, and a
\* project_managers row exists for the email.
C1_OkOnlyWithValidCode ==
  \A r \in Reqs :
    LoggedIn(reqs[r]) =>
      /\ reqs[r].eligible
      /\ reqs[r].pmExists
      /\ reqs[r].otpData # <<>>
      /\ reqs[r].otpData[1].row.email = reqs[r].email
      /\ reqs[r].otpData[1].row.otp_code = reqs[r].otp
      /\ ~reqs[r].otpData[1].row.verified
      /\ reqs[r].resp.sessionToken # <<>>

C1_Witness ==
  \E r \in Reqs : LoggedIn(reqs[r]) /\ reqs[r].eligible

\* C2 (as claimed): on an email with a PM row, a code that matches a stored,
\* unexpired, unverified row is answered 200 with the PM profile and a
\* session token, and afterwards the matched row has verified = true.
C2_ValidCodeLogsInAndConsumes ==
  \A r \in Reqs :
    (reqs[r].pc = "done" /\ reqs[r].eligible /\ PMRowFor(reqs[r].email)) =>
      /\ reqs[r].resp.status = 200
      /\ reqs[r].resp.pm = <<PMProfile(PMRowA)>>
      /\ reqs[r].resp.sessionToken # <<>>
      /\ otp_verifications[reqs[r].otpData[1].id].verified

\* C3 (as claimed): once a request for (email, otp) has been answered 200,
\* every request with the same email and otp that arrives after that answer
\* is answered 400 "Invalid or expired OTP".
C3_NoReuseAfterSuccess ==
  \A r \in Reqs :
    (reqs[r].pc = "done" /\ reqs[r].afterSuccess) =>
      Answered(reqs[r], 400, InvalidOtpMsg)

\* C4: a request whose email or otp is missing or empty is answered 400
\* "Email and OTP are required" straight from its receipt, having read and
\* written nothing, and the step leaves both tables as they were.
C4_MissingFieldsStep ==
  \A r \in Reqs :
    (/\ reqs[r].pc # "done"
     /\ reqs'[r].pc = "done"
     /\ IsJson(reqs'[r])
     /\ (reqs'[r].email = "" \/ reqs'[r].otp = "")) =>
       /\ reqs[r].pc = "idle"
       /\ Answered(reqs'[r], 400, BadRequestMsg)
       /\ reqs'[r].reads = 0
       /\ reqs'[r].writes = 0
       /\ UNCHANGED <<otp_verifications, project_managers>>

C4_MissingFieldsBadRequest == [][C4_MissingFieldsStep]_vars

C4_Witness ==
  \E r \in Reqs :
    /\ reqs[r].pc = "done"
    /\ reqs[r].email # ""
    /\ reqs[r].otp = ""
    /\ Answered(reqs[r], 400, BadRequestMsg)
    /\ \E i \in OtpIds : otp_verifications[i].email = reqs[r].email

\* C5: when no row of the submitted email matches the submitted code with
\* verified = false and expires_at > now, the request is answered 400
\* "Invalid or expired OTP", whatever the reason, by the lookup step itself,
\* which writes nothing and leaves both tables as they were.
C5_NoValidCodeStep ==
  \A r \in Reqs :
    (/\ reqs[r].pc # "done"
     /\ reqs'[r].pc = "done"
     /\ IsJson(reqs'[r])
     /\ reqs'[r].email # ""
     /\ reqs'[r].otp # ""
     /\ ~reqs'[r].eligible) =>
       /\ reqs[r].pc = "lookup"
       /\ Answered(reqs'[r], 400, InvalidOtpMsg)
       /\ reqs'[r].writes = 0
       /\ UNCHANGED <<otp_verifications, project_managers>>

C5_InvalidOtpUniform == [][C5_NoValidCodeStep]_vars

\* two requests rejected at once, one for a used code, one for an expired one
C5_Witness ==
  \E r1, r2 \in Reqs :
    /\ r1 # r2
    /\ reqs[r1].pc = "done" /\ Answered(reqs[r1], 400, InvalidOtpMsg)
    /\ reqs[r2].pc = "done" /\ Answered(reqs[r2], 400, InvalidOtpMsg)
    /\ \E i \in OtpIds :
         /\ otp_verifications[i].email = reqs[r1].email
         /\ otp_verifications[i].otp_code = reqs[r1].otp
         /\ otp_verifications[i].verified
    /\ \E i \in OtpIds :
         /\ otp_verifications[i].email = reqs[r2].email
         /\ otp_verifications[i].otp_code = reqs[r2].otp
         /\ ~otp_verifications[i].verified
         /\ otp_verifications[i].expires_at <= now

\* C6 (as claimed): a valid, unexpired, unverified code for an email with no
\* project_managers row leaves the matched row verified = true, already
\* before the PM lookup, and is answered 404 "Project manager not found".
C6_ConsumedThenNotFound ==
  \A r \in Reqs :
    (reqs[r].pc \in {"pm", "done"} /\ reqs[r].eligible
       /\ ~PMRowFor(reqs[r].email)) =>
      /\ otp_verifications[reqs[r].otpData[1].id].verified
      /\ reqs[r].pc = "done" => Answered(reqs[r], 404, NotFoundMsg)

\* C7 (as claimed): a request never matches a row while a more recently
\* created unexpired, unverified row of the same email exists.
C7_OnlyNewestOfEmail ==
  \A r \in Reqs : reqs[r].otpData # <<>> => ~reqs[r].newerAny

\* C7 (amended): a request never matches a row while a more recently created
\* unexpired, unverified row of the same email with the same code exists.
C7_OnlyNewestWithCode ==
  \A r \in Reqs : reqs[r].otpData # <<>> => ~reqs[r].newerSame

\* the newer of two live rows with the submitted code has been matched
C7_Witness ==
  \E r \in Reqs :
    /\ reqs[r].pc = "mark"
    /\ \E j \in OtpIds :
         /\ ValidFor(otp_verifications[j], reqs[r].email, reqs[r].otp, now)
         /\ otp_verifications[j].created_at
              < reqs[r].otpData[1].row.created_at

\* C8: a step changes the tables only by adding an OTP row or by setting
\* verified to true on the one row a request matched: it never sets verified
\* back, never changes a second row, never removes a row and never touches
\* project_managers.
C8_FrameStep ==
  /\ project_managers' = project_managers
  /\ Len(otp_verifications') >= Len(otp_verifications)
  /\ \A i \in OtpIds :
       \/ otp_verifications'[i] = otp_verifications[i]
       \/ /\ otp_verifications'[i] =
               [otp_verifications[i] EXCEPT !.verified = TRUE]
          /\ \E r \in Reqs :
               /\ reqs[r].pc = "mark"
               /\ reqs'[r].pc = "pm"
               /\ reqs[r].otpData[1].id = i
  /\ Cardinality({i \in OtpIds :
                    otp_verifications'[i] # otp_verifications[i]}) <= 1

C8_OnlyMarksMatchedRow == [][C8_FrameStep]_vars

\* one row of an email consumed while another row of that email is still open
C8_Witness ==
  \E i, j \in OtpIds :
    /\ otp_verifications[i].email = otp_verifications[j].email
    /\ otp_verifications[i].verified
    /\ ~otp_verifications[j].verified

\* ========================================================= dashboard claims
\* C9: the session key gates the dashboard. The dashboard's mount effect,
\* finding no key, sends the tab to the login page and fetches nothing; the
\* login page's mount effect, finding a key, sends the tab to the dashboard;
\* logout leaves the key absent; and a tab has a PM set, projects loaded or
\* a fetch in flight only on the dashboard and only while its key holds a
\* serialized profile, the one the page shows.
C9_GateStep ==
  \A t \in Tabs :
    /\ (DashboardEffect(t) /\ tabs[t].session = <<>>) =>
         /\ tabs'[t].route = "login"
         /\ tabs'[t].fetching = 0
         /\ tabs'[t].pm = <<>>
         /\ tabs'[t].projects = <<>>
    /\ (LoginEffect(t) /\ tabs[t].session # <<>>) =>
         tabs'[t].route = "dashboard"
    /\ Logout(t) => tabs'[t].session = <<>>
    /\ (tabs'[t].pm # <<>> \/ tabs'[t].projects # <<>>
          \/ tabs'[t].fetching > 0 \/ tabs'[t].profiling > 0) =>
         /\ tabs'[t].route = "dashboard"
         /\ tabs'[t].pm # <<>>
         /\ tabs'[t].session # <<>>
         /\ tabs'[t].pm[1] = Parse(tabs'[t].session[1])

C9_SessionKeyGates == [][C9_GateStep]_vars

\* one tab shows its projects under its key while the other, without a key,
\* rests on the login page
C9_Witness ==
  \E t, u \in Tabs :
    /\ ListShown(tabs[t])
    /\ tabs[t].session # <<>>
    /\ tabs[u].route = "login"
    /\ ~tabs[u].effectPending
    /\ tabs[u].session = <<>>

\* C10 (as claimed): every note update that succeeds leaves the stored notes
\* equal to the notes stored just before it followed by the new entry.
C10_Appended(op) ==
  service_requests'[op.projectId].notes =
    Append(service_requests[op.projectId].notes, op.notes[Len(op.notes)])

C10_AppendStep ==
  noteSaves' = noteSaves + 1 =>
    \/ \E t \in Tabs :
         /\ tabs[t].noteOp # <<>>
         /\ tabs'[t].noteOp = <<>>
         /\ C10_Appended(tabs[t].noteOp[1])
    \/ \E w \in orphanWrites \ orphanWrites' :
         /\ w.kind = "note"
         /\ C10_Appended(w.op)

C10_NotesAppendOnly == [][C10_AppendStep]_vars

\* ========================================================= analytics claims
\* the first position of a value in a sequence (the value occurs in it)
FirstAt(seq, v) ==
  CHOOSE k \in 1..Len(seq) : seq[k] = v /\ \A j \in 1..(k - 1) : seq[j] # v

\* the number of positions of a sequence that hold a value
Occurrences(seq, v) == Cardinality({k \in 1..Len(seq) : seq[k] = v})

\* the values a sequence holds
Range(seq) == {seq[k] : k \in 1..Len(seq)}

RECURSIVE SumOf(_)
SumOf(nums) == IF nums = <<>> THEN 0 ELSE Head(nums) + SumOf(Tail(nums))

\* the names of the PMs of a list
NamesOf(pms) == {pms[k].name : k \in 1..Len(pms)}

\* C11 (as claimed): with an empty request list all four views are empty,
\* whatever the PM list.
C11_EmptyGivesEmpty ==
  requests = <<>> =>
    /\ requestTrends(requests) = <<>>
    /\ statusDistribution(requests) = <<>>
    /\ pmWorkload(requests, projectManagers) = <<>>
    /\ popularServices(requests) = <<>>

\* C11 (amended): with an empty request list the request trend, the status
\* distribution and the popular services are empty, and the PM workload
\* holds one entry per distinct PM name, each with projects = 0; it is empty
\* only when the PM list is empty too.
C11_EmptyGivesEmptyButWorkload ==
  requests = <<>> =>
    LET wl == pmWorkload(requests, projectManagers)
    IN /\ requestTrends(requests) = <<>>
       /\ statusDistribution(requests) = <<>>
       /\ popularServices(requests) = <<>>
       /\ {wl[i].name : i \in 1..Len(wl)} = NamesOf(projectManagers)
       /\ Len(wl) = Cardinality(NamesOf(projectManagers))
       /\ \A i \in 1..Len(wl) : wl[i].projects = 0
       /\ (wl = <<>>) <=> (projectManagers = <<>>)

\* no requests, two PMs of different names
C11_Witness ==
  /\ requests = <<>>
  /\ Len(projectManagers) = 2
  /\ projectManagers[1].name # projectManagers[2].name

\* the labels the four statuses are shown under
LabelOf(status) ==
  CASE status = StPending    -> <<"P", "e", "n", "d", "i", "n", "g">>
    [] status = StInProgress ->
         <<"I", "n", " ", "P", "r", "o", "g", "r", "e", "s", "s">>
    [] status = StCompleted  -> <<"C", "o", "m", "p", "l", "e", "t", "e", "d">>
    [] status = StCancelled  -> <<"C", "a", "n", "c", "e", "l", "l", "e", "d">>

\* C12: the status distribution has one bucket per distinct status label, in
\* the order the labels first appear in the request list; a bucket's value is
\* the number of requests under its label; the values add up to the length of
\* the list; requests that all share one status give one bucket holding them
\* all; and pending, pending, completed gives Pending 2, Completed 1.
C12_StatusBuckets ==
  LET sd     == statusDistribution(requests)
      labels == [k \in 1..Len(requests) |-> LabelOf(requests[k].status)]
      names  == [i \in 1..Len(sd) |-> sd[i].name]
  IN /\ Range(names) = Range(labels)
     /\ Len(sd) = Cardinality(Range(labels))
     /\ \A i, j \in 1..Len(sd) :
          i < j => FirstAt(labels, names[i]) < FirstAt(labels, names[j])
     /\ \A i \in 1..Len(sd) : sd[i].value = Occurrences(labels, names[i])
     /\ SumOf([i \in 1..Len(sd) |-> sd[i].value]) = Len(requests)
     /\ (requests # <<>> /\ Cardinality(Range(labels)) = 1) =>
          sd = <<[name |-> labels[1], value |-> Len(requests)]>>
     /\ [k \in 1..Len(requests) |-> requests[k].status]
            = <<StPending, StPending, StCompleted>> =>
          sd = <<[name |-> LabelOf(StPending), value |-> 2],
                 [name |-> LabelOf(StCompleted), value |-> 1]>>

\* all four labels are on show, "In Progress" among them, and the buckets are
\* not all of one size
C12_Witness ==
  LET sd == statusDistribution(requests)
  IN /\ Len(sd) = 4
     /\ \E i \in 1..Len(sd) : sd[i].name = LabelOf(StInProgress)
     /\ \E i, j \in 1..Len(sd) : sd[i].value > sd[j].value
     /\ Len(requests) > loaded

\* C13 (as claimed): every PM of the list has an entry in the PM workload
\* under their name, and its projects value is the number of requests whose
\* assigned_pm_id is that PM's id, 0 for a PM without requests.
C13_WorkloadPerPM ==
  LET wl == pmWorkload(requests, projectManagers)
  IN \A k \in 1..Len(projectManagers) :
       \E i \in 1..Len(wl) :
         /\ wl[i].name = projectManagers[k].name
         /\ wl[i].projects =
              Cardinality({j \in 1..Len(requests) :
                 requests[j].assigned_pm_id = <<projectManagers[k].id>>})

\* the service a request counts under: its service_type, 'Unspecified' when
\* it has none
CountedUnder(r) ==
  IF r.service_type \in {<<>>, <<"">>} THEN "Unspecified"
  ELSE r.service_type[1]

\* C19: the popular services count the requests by service_type, a request
\* without one under 'Unspecified'; the buckets come in non-increasing order
\* of count; there are at most six of them, all there are when there are no
\* more than six, and no bucket left out has a higher count than one shown.
C19_PopularTopSix ==
  LET ps     == popularServices(requests)
      types  == [k \in 1..Len(requests) |-> CountedUnder(requests[k])]
      names  == [i \in 1..Len(ps) |-> ps[i].name]
  IN /\ Range(names) \subseteq Range(types)
     /\ Cardinality(Range(names)) = Len(ps)
     /\ \A i \in 1..Len(ps) : ps[i].value = Occurrences(types, names[i])
     /\ \A i, j \in 1..Len(ps) : i < j => ps[i].value >= ps[j].value
     /\ Len(ps) <= 6
     /\ Cardinality(Range(types)) <= 6 => Range(names) = Range(types)
     /\ Cardinality(Range(types)) > 6 => Len(ps) = 6
     /\ \A t \in Range(types) \ Range(names) :
          \A i \in 1..Len(ps) : Occurrences(types, t) <= ps[i].value

\* more than six services requested, one of them unnamed; the most requested
\* one came in last and is listed first
C19_Witness ==
  LET ps    == popularServices(requests)
      types == [k \in 1..Len(requests) |-> CountedUnder(requests[k])]
  IN /\ Cardinality(Range(types)) > 6
     /\ \E k \in 1..Len(requests) : requests[k].service_type = <<>>
     /\ ps[1].value > ps[6].value
     /\ FirstAt(types, ps[1].name) > loaded

\* the month a request was created in
BucketOf(r) == <<r.created_at.year, r.created_at.month>>

\* the buckets of a list that first appear at or before position k
SeenBy(buckets, k) == {buckets[j] : j \in 1..k}

\* C20: the request trend groups the requests by month and year of
\* created_at, keeps the buckets in the order they first appear in the list
\* and returns the last six of them in that order, each with the count of
\* all its requests, whatever the order of the months themselves.
C20_TrendLastSix ==
  LET rt      == requestTrends(requests)
      buckets == [k \in 1..Len(requests) |-> BucketOf(requests[k])]
      n       == Cardinality(Range(buckets))
      dropped == IF n > 6 THEN n - 6 ELSE 0
  IN /\ Len(rt) = n - dropped
     /\ \A i \in 1..Len(rt) :
          \E b \in Range(buckets) :
            /\ rt[i].month = <<MonthShort[b[2]], b[1]>>
            /\ rt[i].count = Occurrences(buckets, b)
            /\ Cardinality(SeenBy(buckets, FirstAt(buckets, b)))
                 = dropped + i

\* seven months in the list: the one left out is the first seen, and it is
\* later in time than one that is shown
C20_Witness ==
  LET rt      == requestTrends(requests)
      buckets == [k \in 1..Len(requests) |-> BucketOf(requests[k])]
  IN /\ Cardinality(Range(buckets)) = 7
     /\ Len(rt) = 6
     /\ \A i \in 1..Len(rt) :
          rt[i].month # <<MonthShort[buckets[1][2]], buckets[1][1]>>
     /\ \E i \in 1..Len(rt) : rt[i].month = <<"Dec", 2023>>
     /\ buckets[1] = <<2024, 3>>
     /\ \E i \in 1..Len(rt) : rt[i].count = 2

\* ============================================================ status claims
\* a status update can be started on every listed request of a page that
\* shows its list and has none in flight, for each status of a set
C17_Changeable(values) ==
  \A t \in Tabs, p \in SrIds, s \in values :
    (/\ ListShown(tabs[t])
     /\ \E k \in 1..Len(tabs[t].projects) : tabs[t].projects[k].id = p
     /\ tabs[t].statusOp = <<>>) =>
       ENABLED UpdateStatus(t, p, s)

\* a status update that was stored has set the status it asked for, whatever
\* the status was
C17_Accepted ==
  \A t \in Tabs :
    (tabs[t].statusDone # <<>> /\ tabs[t].statusDone[1].ok) =>
      tabs[t].statusDone[1].is = tabs[t].statusDone[1].asked

\* C17 (as claimed): from the dashboard a request's status can be changed
\* from any status to each of pending, in_progress, completed and cancelled,
\* and no change is rejected.
C17_AnyToAnyOfFour ==
  /\ C17_Changeable({"pending", "in_progress", "completed", "cancelled"})
  /\ C17_Accepted

\* C17 (amended): from the dashboard a request's status can be changed from
\* any status, cancelled included, to each of pending, in_progress and
\* completed, and no such change is rejected; the dashboard never asks for
\* cancelled.
C17_AnyToAnyOffered ==
  /\ C17_Changeable({"pending", "in_progress", "completed"})
  /\ C17_Accepted
  /\ \A t \in Tabs :
       /\ tabs[t].statusOp # <<>> => tabs[t].statusOp[1].status # "cancelled"
       /\ tabs[t].statusDone # <<>> =>
            tabs[t].statusDone[1].asked # "cancelled"

\* one tab has reopened a completed request, the other had taken it out of
\* cancelled
C17_Witness ==
  \E t, u \in Tabs :
    /\ tabs[t].statusDone # <<>>
    /\ tabs[t].statusDone[1].ok
    /\ tabs[t].statusDone[1].was = "completed"
    /\ tabs[t].statusDone[1].is = "pending"
    /\ tabs[u].statusDone # <<>>
    /\ tabs[u].statusDone[1].ok
    /\ tabs[u].statusDone[1].was = "cancelled"

\* C18: the answer to a status update that was not stored leaves the page's
\* project list, its spinner and its fetches as they were and the table as
\* it was; the answer to one that was stored starts a fetch of the list; and
\* on a page already set up a fetch starts in no other way.
C18_AnswerStep ==
  \A t \in Tabs :
    /\ (tabs[t].statusOp # <<>> /\ tabs'[t].statusOp = <<>>
          /\ tabs'[t].statusDone # <<>>) =>
         IF tabs'[t].statusDone[1].ok
         THEN /\ tabs'[t].fetching = tabs[t].fetching + 1
              /\ tabs'[t].loading
              /\ service_requests'[tabs[t].statusOp[1].projectId].status
                   = tabs[t].statusOp[1].status
         ELSE /\ tabs'[t].projects = tabs[t].projects
              /\ tabs'[t].loading = tabs[t].loading
              /\ tabs'[t].fetching = tabs[t].fetching
              /\ tabs'[t].profiling = tabs[t].profiling
              /\ service_requests' = service_requests
    /\ (tabs'[t].fetching > tabs[t].fetching /\ ~tabs[t].effectPending) =>
         /\ tabs[t].statusOp # <<>>
         /\ tabs'[t].statusDone # <<>>
         /\ tabs'[t].statusDone[1].ok

C18_FailedStatusKeepsList == [][C18_AnswerStep]_vars

\* a page whose update was refused still lists the request under its stored
\* status, which is not the one asked for, and fetches nothing
C18_Witness ==
  \E t \in Tabs :
    /\ tabs[t].statusDone # <<>>
    /\ ~tabs[t].statusDone[1].ok
    /\ ListShown(tabs[t])
    /\ tabs[t].fetching = 0
    /\ tabs[t].statusDone[1].asked # service_requests[1].status
    /\ CachedStatus(tabs[t].projects, 1) = service_requests[1].status

\* ============================================== concurrent and failed writes
\* C14: nothing keeps a second request from the row a first one has matched
\* and not yet marked: a request at its lookup, with the email and code of a
\* request that stands between its lookup and its update on a row still
\* valid, passes the lookup too; and two requests that have matched the same
\* row are both answered 200 when the email has a PM row.
C14_RaceStep ==
  /\ \A r, o \in Reqs :
       (/\ r # o
        /\ reqs[o].pc = "mark"
        /\ reqs[r].pc = "lookup"
        /\ reqs'[r].pc # "lookup"
        /\ reqs[r].email = reqs[o].email
        /\ reqs[r].otp = reqs[o].otp
        /\ ValidFor(otp_verifications[reqs[o].otpData[1].id],
                    reqs[r].email, reqs[r].otp, now)) =>
          /\ reqs'[r].pc = "mark"
          /\ reqs'[r].otpData # <<>>
  /\ \A r, o \in Reqs :
       (/\ r # o
        /\ reqs'[r].pc = "done" /\ reqs'[o].pc = "done"
        /\ reqs'[r].otpData # <<>> /\ reqs'[o].otpData # <<>>
        /\ reqs'[r].otpData[1].id = reqs'[o].otpData[1].id
        /\ PMRowFor(reqs'[r].email)) =>
          /\ reqs'[r].resp.status = 200
          /\ reqs'[o].resp.status = 200

C14_NoMutualExclusion == [][C14_RaceStep]_vars

\* two requests with the same email and code matched the same row, both
\* updates were stored (so each lookup came before either update), and both
\* were answered 200 with the profile: one code, two logins
C14_Witness ==
  \E r, o \in Reqs :
    /\ r # o
    /\ LoggedIn(reqs[r]) /\ LoggedIn(reqs[o])
    /\ reqs[r].email = reqs[o].email
    /\ reqs[r].otp = reqs[o].otp
    /\ reqs[r].otpData[1].id = reqs[o].otpData[1].id
    /\ reqs[r].markOk = <<TRUE>> /\ reqs[o].markOk = <<TRUE>>
    /\ Cardinality({i \in OtpIds :
           otp_verifications[i].email = reqs[r].email}) = 1

\* C15: when the update that marks the matched row fails, the step leaves the
\* table as it was and the request goes on to the PM lookup; the answer of
\* the PM lookup is the one a stored update would have been followed by (200
\* with the profile and a token when the email has a PM row, 404 when not);
\* and the row, still verified = false, is matched again by a later request.
C15_FailedMarkStep ==
  \A r \in Reqs :
    /\ (reqs[r].pc = "mark" /\ reqs'[r].markOk = <<FALSE>>) =>
         /\ reqs'[r].pc = "pm"
         /\ reqs'[r].resp = NoResponse
         /\ otp_verifications' = otp_verifications
    /\ (reqs[r].pc = "pm" /\ reqs'[r].pc = "done") =>
         IF PMRowFor(reqs[r].email)
         THEN /\ reqs'[r].resp.status = 200
              /\ reqs'[r].resp.pm = <<PMProfile(PMRowA)>>
              /\ reqs'[r].resp.sessionToken # <<>>
         ELSE Answered(reqs'[r], 404, NotFoundMsg)

C15_FailedMarkUnnoticed == [][C15_FailedMarkStep]_vars

\* a request whose update failed was answered 200, the row is still
\* unverified, and a request that arrived after that answer with the same
\* email and code has matched the row again and was answered 200 as well
C15_Witness ==
  \E r, o \in Reqs :
    /\ r # o
    /\ LoggedIn(reqs[o]) /\ reqs[o].markOk = <<FALSE>>
    /\ LoggedIn(reqs[r]) /\ reqs[r].afterSuccess
    /\ reqs[r].email = reqs[o].email
    /\ reqs[r].otp = reqs[o].otp
    /\ reqs[r].otpData[1].id = reqs[o].otpData[1].id
    /\ reqs[r].markOk = <<FALSE>>
    /\ ~otp_verifications[reqs[o].otpData[1].id].verified

\* C16: a note update that succeeds stores the whole notes text its page put
\* together when the save was started, over whatever the row holds by then,
\* and changes nothing else; so of two saves started side by side on one
\* request, both of which succeed, only the entry of the later write stays.
C16_LastWriteStep ==
  noteSaves' = noteSaves + 1 =>
    \/ \E t \in Tabs :
         /\ tabs[t].noteOp # <<>>
         /\ tabs'[t].noteOp = <<>>
         /\ service_requests' =
              [service_requests EXCEPT
                 ![tabs[t].noteOp[1].projectId].notes = tabs[t].noteOp[1].notes]
    \/ \E w \in orphanWrites \ orphanWrites' :
         /\ w.kind = "note"
         /\ service_requests' =
              [service_requests EXCEPT ![w.op.projectId].notes = w.op.notes]

C16_LastWriteWins == [][C16_LastWriteStep]_vars

\* two tabs saved different notes on request 1 side by side and both saves
\* succeeded; the stored text is the one entry of this tab, the rival's
\* entry is gone
C16_Witness ==
  \E t \in Tabs :
    /\ tabs[t].rival # <<>>
    /\ Len(tabs[t].rival[1]) = 1
    /\ noteSaves = 2
    /\ \A u \in Tabs : tabs[u].noteOp = <<>> /\ ~tabs[u].savingNote
    /\ orphanWrites = {}
    /\ Len(service_requests[1].notes) = 1
    /\ service_requests[1].notes[1].text # tabs[t].rival[1][1].text

\* ============================================================= login claims
\* the verify call whose answer this step handles, with the outcome given
C21_Answered(c, outcomes) ==
  /\ c \in calls
  /\ c.kind = "verify"
  /\ c.id \notin {d.id : d \in calls'}
  /\ lastAnswer' # <<>>
  /\ lastAnswer'[1].kind = "verify"
  /\ lastAnswer'[1].outcome \in outcomes

\* C21: the session key is written, and the login page gives way to the
\* dashboard, only in the step that handles a verification answer with an OK
\* status, which stores the profile of the PM of the submitted email; the
\* step that handles a failed or errored verification answer leaves the key,
\* the route and the step of the page as they were, the 'otp' step included,
\* and leaves loading false on the page that made the call.
C21_VerifyStep ==
  /\ (login'.session # login.session /\ login'.session # <<>>) =>
       \E c \in calls :
         /\ C21_Answered(c, {"ok"})
         /\ \E p \in project_managers :
              /\ p.email = c.email
              /\ login'.session = <<Stringify(PMProfile(p))>>
         /\ login'.route = "dashboard"
  /\ (login.route = "login" /\ login'.route = "dashboard") =>
       \E c \in calls : C21_Answered(c, {"ok"})
  /\ \A c \in calls :
       C21_Answered(c, {"not ok", "error"}) =>
         /\ login'.session = login.session
         /\ login'.route = login.route
         /\ login'.step = login.step
         /\ ~c.orphan => ~login'.loading

C21_SessionOnlyAfterOk == [][C21_VerifyStep]_vars

\* a verification was refused: the page is on the 'otp' step with the code
\* still in its field, not loading, and the tab has no session key
C21_Witness ==
  /\ lastAnswer # <<>>
  /\ lastAnswer[1].kind = "verify"
  /\ lastAnswer[1].outcome = "not ok"
  /\ ~lastAnswer[1].orphan
  /\ login.route = "login"
  /\ login.step = "otp"
  /\ OtpLength(login.otp) = 6
  /\ ~login.loading
  /\ login.session = <<>>
  /\ calls = {}

\* C22 (as claimed): whenever the login page is on the 'otp' step, its email
\* is the one the last successful send was made for; and the page goes from
\* the 'email' step to the 'otp' step only in the step that handles a send
\* answered OK.
C22_OtpStep ==
  /\ (login'.route = "login" /\ login'.step = "otp") =>
       sentTo' = <<login'.email>>
  /\ (login.step = "email" /\ login'.step = "otp") =>
       /\ lastAnswer' # <<>>
       /\ lastAnswer'[1].kind = "send"
       /\ lastAnswer'[1].outcome = "ok"
       /\ \E c \in calls : c.kind = "send" /\ c \notin calls'

C22_OtpEmailIsSentTo == [][C22_OtpStep]_vars


====
